---- MODULE Spec2Model ----
(***************************************************************************)
(* A model of openseat's Run: load the configuration, resolve the course   *)
(* name of every configured CRN, then poll the timetable for every course  *)
(* not yet found until all of them have been found.                        *)
(*                                                                         *)
(* Text is modelled as a sequence of one-character strings, an HTML        *)
(* results table as a sequence of rows, a row as a sequence of cell texts. *)
(***************************************************************************)
EXTENDS Integers, Sequences, FiniteSets, TLC

\* Bounds of the model.
MaxCRNs == 2        \* longest "crns" list of a configuration file
MaxAttempts == 3    \* poll cycles explored
MaxRows == 2        \* longest results table handed to checkSectionOpen alone

\* The inputs the environment may supply.
CRNValues == {<<"1">>, <<"2">>}
Emails == {<<>>, <<"e">>}

\* The title cell the timetable shows for a section: its title with the
\* padding of the page around it, or a blank cell.
TitleCells(c) == {<<" ">>, IF c = <<"1">> THEN <<" ", "a">> ELSE <<"b", " ">>}
RECURSIVE SeqsUpTo(_, _)
SeqsUpTo(S, n) ==
    IF n = 0 THEN {<<>>}
    ELSE LET shorter == SeqsUpTo(S, n - 1)
         IN  shorter \cup {Append(s, x) : s \in shorter, x \in S}

\* A row of the results table: the CRN cell alone, or CRN, section, title.
TableRows == {<<c>> : c \in CRNValues}
             \cup UNION {{<<c, <<"0">>, t>> : t \in TitleCells(c)} : c \in CRNValues}

\* What the timetable server can answer to one POST.
Responses ==
    {[net |-> "fail", status |-> 0, rows |-> <<>>]}
    \cup [net : {"ok", "badbody"}, status : {200, 500}, rows : SeqsUpTo(TableRows, 1)]

\* The sections a results table may list when checkSectionOpen is examined
\* alone, and its rows: the CRN cell, a section cell, a title cell.
ListedCRNs == CRNValues \cup {<<"2", "1">>}
ListedRows == {<<c>> : c \in ListedCRNs}
              \cup {<<c, n, <<"a">>>> : c \in ListedCRNs, n \in {<<"0">>, <<"1">>}}
ListedResponses ==
    {[net |-> "fail", status |-> 0, rows |-> <<>>]}
    \cup [net : {"ok", "badbody"}, status : {200, 500}, rows : SeqsUpTo(ListedRows, MaxRows)]

\* The configuration file at opts.ConfigPath.
\* A file that is missing or is not JSON has no fields; a file that parses
\* gives "crns" and "email", and leaves out (or gives as 0 or "") each of
\* "checkInterval", "campus", "term" and "baseUrl" unless it is among those
\* the sets name.
FilesGiving(intervals, campuses, terms, urls) ==
    {[kind |-> k, crns |-> <<>>, email |-> <<>>, checkInterval |-> 0, campus |-> "",
      term |-> "", baseUrl |-> ""] : k \in {"missing", "badjson"}}
    \cup [kind : {"ok"}, crns : SeqsUpTo(CRNValues, MaxCRNs), email : Emails,
          checkInterval : {0} \cup intervals, campus : {""} \cup campuses,
          term : {""} \cup terms, baseUrl : {""} \cup urls]

\* The files Run is given: the lookup parameters are left to their defaults.
ConfigFiles == FilesGiving({}, {}, {}, {})

\* The files loadConfig is given when it is examined alone.
AnyConfigFiles == FilesGiving({5, 30}, {"0", "1"}, {"202601", "202609"},
                              {"DefaultTimetableURL", "http://localhost"})

-----------------------------------------------------------------------------
\* strings.Contains
Contains(s, sub) ==
    \E j \in 0..(Len(s) - Len(sub)) : SubSeq(s, j + 1, j + Len(sub)) = sub

\* strings.TrimSpace
RECURSIVE TrimLeft(_)
TrimLeft(s) == IF s # <<>> /\ Head(s) = " " THEN TrimLeft(Tail(s)) ELSE s

RECURSIVE TrimRight(_)
TrimRight(s) ==
    IF s # <<>> /\ s[Len(s)] = " " THEN TrimRight(SubSeq(s, 1, Len(s) - 1)) ELSE s

TrimSpace(s) == TrimRight(TrimLeft(s))

\* row.Find("td:nth-child(n)").Text()
NthChildText(row, n) == IF n <= Len(row) THEN row[n] ELSE <<>>

\* The text of a row, and doc.Find(".dataentrytable").Text(): all cells in order.
RECURSIVE RowText(_)
RowText(row) == IF row = <<>> THEN <<>> ELSE Head(row) \o RowText(Tail(row))

RECURSIVE TableText(_)
TableText(rows) == IF rows = <<>> THEN <<>> ELSE RowText(Head(rows)) \o TableText(Tail(rows))

\* Config{} returned together with the error err.
ZeroConfig(err) ==
    [err |-> err, crns |-> <<>>, email |-> <<>>, checkInterval |-> 0, campus |-> "",
     term |-> "", baseUrl |-> ""]

DefaultCheckInterval == 30

\* Mutant: the default is set whatever the file gives.
AlwaysDefault(given, zero, default) == default

\* loadConfig: if cfg.X == zero { cfg.X = default }.
OrDefault(given, zero, default) == IF given = zero THEN default ELSE given

\* loadConfig: the configuration and whether an error is returned.
loadConfig(file) ==
    IF file.kind = "missing" THEN ZeroConfig("read")
    ELSE IF file.kind = "badjson" THEN ZeroConfig("parse")
    ELSE IF Len(file.crns) = 0 THEN ZeroConfig("nocrns")
    ELSE [err |-> "nil", crns |-> file.crns, email |-> file.email,
          checkInterval |-> OrDefault(file.checkInterval, 0, DefaultCheckInterval),
          campus |-> OrDefault(file.campus, "", "0"),
          term |-> OrDefault(file.term, "", "202601"),
          baseUrl |-> OrDefault(file.baseUrl, "", "DefaultTimetableURL")]

\* Config.buildPayload: the form fields that depend on its arguments; a key
\* that is not set has no values.
buildPayload(c, crn, openOnly) ==
    [CAMPUS |-> <<c.campus>>, TERMYEAR |-> <<c.term>>, crn |-> <<crn>>,
     open_only |-> IF openOnly THEN <<"on">> ELSE <<>>]

\* fetchDocument: the parsed document (its table rows) or an error.
fetchDocument(resp) ==
    IF resp.net = "fail" THEN [err |-> TRUE, doc |-> <<>>]
    ELSE IF resp.status # 200 THEN [err |-> TRUE, doc |-> <<>>]
    ELSE IF resp.net = "badbody" THEN [err |-> TRUE, doc |-> <<>>]
    ELSE [err |-> FALSE, doc |-> resp.rows]

\* Config.checkSectionOpen: (open, err) for the answer to the open-only query.
checkSectionOpen(crn, resp) ==
    LET d == fetchDocument(resp)
    IN  IF d.err THEN [open |-> FALSE, err |-> TRUE]
        ELSE [open |-> Contains(TableText(d.doc), crn), err |-> FALSE]

\* The Each loop of getCourseName: the title of the last row whose first cell
\* contains the CRN.
RECURSIVE ScanRows(_, _, _)
ScanRows(rows, crn, courseName) ==
    IF rows = <<>> THEN courseName
    ELSE ScanRows(Tail(rows), crn,
                  IF Contains(NthChildText(Head(rows), 1), crn)
                  THEN TrimSpace(NthChildText(Head(rows), 3))
                  ELSE courseName)

\* Config.getCourseName: (name, err).
getCourseName(crn, resp) ==
    LET d == fetchDocument(resp)
    IN  IF d.err THEN [name |-> <<>>, err |-> TRUE]
        ELSE LET courseName == ScanRows(d.doc, crn, <<>>)
             IN  IF courseName = <<>> THEN [name |-> <<>>, err |-> TRUE]
                 ELSE [name |-> courseName, err |-> FALSE]

-----------------------------------------------------------------------------
VARIABLES
    pc,              \* where Run is: "load", "resolve", "loop", "lookup", "delay", "wait", "done"
    cfgFile,         \* the configuration file at opts.ConfigPath
    cfg,             \* cfg of Run, as loadConfig returned it
    k,               \* position of the name-resolution loop in cfg.CRNs
    courses,         \* courses of Run: a sequence of CourseStatus
    remaining,       \* remaining of Run
    attempt,         \* attempt of Run (0 before the polling loop)
    i,               \* index of the inner loop over courses
    outcome,         \* what Run returned; "none" while it runs
    resolved,        \* history: per configured position, whether getCourseName succeeded
    lookedCRNs,      \* history: the CRNs passed to checkSectionOpen so far
    looked,          \* history: per course, the result of its lookup in the current cycle
    failedPrev,      \* history: the courses whose lookup failed in the previous cycle
    cycStart,        \* history: courses, remaining and number of notifications at the cycle's start
    notifs,          \* history: the sendEmail calls made so far
    issued,          \* history: this cycle's lookups (the course's index) and sleeps (0), in order
    inflight,        \* history: the courses whose lookup has been called and has not returned
    cancelRequested, \* environment: an external cancellation has been requested
    pendingAtCancel, \* history: the courses that were Pending when it was requested
    upstream,        \* environment: how the timetable server answers from now on
    emailSender,     \* emailSender of Run; opts.EmailSender before Run assigns it
    call,            \* a function called on its own: its arguments, then its results
    waits,           \* history: the length in seconds of every wait between cycles so far
    legacy           \* the single-CRN program of src/main.go: its position and locals

vars == <<pc, cfgFile, cfg, k, courses, remaining, attempt, i, outcome, resolved,
          lookedCRNs, looked, failedPrev, cycStart, notifs, issued, inflight, cancelRequested,
          pendingAtCancel, upstream, emailSender, call, waits,
          legacy>>

inputVars == <<cfgFile, cfg, upstream, emailSender, call>>
histVars == <<resolved, lookedCRNs, looked, failedPrev, cycStart, notifs, issued, inflight>>
cancelVars == <<cancelRequested, pendingAtCancel>>

Indices == DOMAIN courses
Pending == {j \in Indices : ~courses[j].Found}
NoLookups == [j \in Indices |-> "none"]
Snapshot(cs, r, n) == [courses |-> cs, remaining |-> r, notifs |-> n]

\* http.PostForm in fetchDocument, called for crn: the answers it can return
\* with. The default client sets no timeout: while the server stays silent
\* the call does not return.
Answers(crn) ==
    IF upstream = "silent" THEN {}
    ELSE IF upstream = "open"
    THEN {resp \in Responses :
            LET r == checkSectionOpen(crn, resp) IN ~r.err /\ r.open}
    ELSE Responses

\* RunOptions.EmailSender: nil, or a sender the caller supplies.
EmailSenders == {"nil", "supplied"}

\* Run is called with opts.EmailSender = sender.
\* Run is called with opts.EmailSender = sender and opts.ConfigPath naming
\* one of files.
RunCalledWith(files, sender) ==
    /\ pc = "load"
    /\ cfgFile \in files
    /\ cfg = ZeroConfig("nil")
    /\ k = 1
    /\ courses = <<>>
    /\ remaining = 0
    /\ attempt = 0
    /\ i = 0
    /\ outcome = "none"
    /\ resolved = <<>>
    /\ lookedCRNs = {}
    /\ looked = <<>>
    /\ failedPrev = {}
    /\ cycStart = Snapshot(<<>>, 0, 0)
    /\ notifs = <<>>
    /\ issued = <<>>
    /\ inflight = {}
    /\ cancelRequested = FALSE
    /\ pendingAtCancel = {}
    /\ upstream = "any"
    /\ emailSender = sender
    /\ waits = <<>>

\* Run is called with opts.EmailSender = sender.
RunCalled(sender) == RunCalledWith(ConfigFiles, sender)

\* The single-CRN program is not run.
NotRun == [pc |-> "none", crn |-> <<>>, found |-> FALSE, attempt |-> 0,
           resp |-> <<>>, posts |-> 0, exit |-> "none"]

\* No function is called on its own.
NoCall == [fn |-> "none", arg |-> <<>>, done |-> FALSE, sent |-> <<>>, ret |-> <<>>]

\* Run as main calls it: no sender is supplied.
Init == RunCalled("nil") /\ call = NoCall /\ legacy = NotRun

\* Run: cfg, err := loadConfig(opts.ConfigPath); an error is returned at once.
LoadConfig ==
    /\ pc = "load"
    /\ cfg' = loadConfig(cfgFile)
    /\ IF cfg'.err # "nil"
       THEN pc' = "done" /\ outcome' = "errLoadConfig" /\ emailSender' = emailSender
       ELSE /\ pc' = "resolve" /\ outcome' = outcome
            /\ emailSender' = IF emailSender = "nil" THEN "ResendEmailSender"
                                                    ELSE emailSender
    /\ UNCHANGED <<cfgFile, upstream, call, k, courses, remaining, attempt, i>>
    /\ UNCHANGED histVars
    /\ UNCHANGED cancelVars
    /\ UNCHANGED waits
    /\ UNCHANGED legacy

\* Run: the function the open branch hands a notification to, emailSender
\* being sender: the package-level sendEmail, whatever emailSender is.
SentVia(sender) == "sendEmail"

\* Run: getCourseName failed for cfg.CRNs[k]; cs is courses afterwards.
ResolveFailed(cs) ==
    /\ pc = "resolve"
    /\ k <= Len(cfg.crns)
    /\ \E resp \in Responses : getCourseName(cfg.crns[k], resp).err
    /\ courses' = cs
    /\ k' = k + 1
    /\ resolved' = Append(resolved, FALSE)
    /\ UNCHANGED <<pc, remaining, attempt, i, outcome>>
    /\ UNCHANGED inputVars
    /\ UNCHANGED <<lookedCRNs, looked, failedPrev, cycStart, notifs, issued, inflight>>
    /\ UNCHANGED cancelVars
    /\ UNCHANGED waits
    /\ UNCHANGED legacy

\* Mutant: the continue is missing, the CRN is appended with the empty name.
ResolveSkipAppends ==
    ResolveFailed(Append(courses, [CRN |-> cfg.crns[k], Name |-> <<>>, Found |-> FALSE]))

\* Run: err != nil: "not found, skipping", continue.
ResolveSkip == ResolveFailed(courses)

\* Run: getCourseName succeeded: append CourseStatus{CRN, Name, Found: false}.
ResolveAppend ==
    /\ pc = "resolve"
    /\ k <= Len(cfg.crns)
    /\ \E resp \in Responses :
         LET r == getCourseName(cfg.crns[k], resp)
         IN  /\ ~r.err
             /\ courses' = Append(courses,
                                  [CRN |-> cfg.crns[k], Name |-> r.name, Found |-> FALSE])
    /\ k' = k + 1
    /\ resolved' = Append(resolved, TRUE)
    /\ UNCHANGED <<pc, remaining, attempt, i, outcome>>
    /\ UNCHANGED inputVars
    /\ UNCHANGED <<lookedCRNs, looked, failedPrev, cycStart, notifs, issued, inflight>>
    /\ UNCHANGED cancelVars
    /\ UNCHANGED waits
    /\ UNCHANGED legacy

\* Mutant: the check for an empty course list is missing.
NoCoursesIgnored(cs) == FALSE

\* Run: len(courses) == 0.
NoCourses(cs) == Len(cs) = 0

\* Run: if len(courses) == 0 { return "no valid CRNs to monitor" }.
ReturnNoValid ==
    /\ pc = "resolve"
    /\ k > Len(cfg.crns)
    /\ NoCourses(courses)
    /\ pc' = "done"
    /\ outcome' = "errNoValid"
    /\ UNCHANGED <<k, courses, remaining, attempt, i>>
    /\ UNCHANGED inputVars
    /\ UNCHANGED histVars
    /\ UNCHANGED cancelVars
    /\ UNCHANGED waits
    /\ UNCHANGED legacy

\* Run: remaining := len(courses); the first attempt begins.
StartPolling ==
    /\ pc = "resolve"
    /\ k > Len(cfg.crns)
    /\ ~NoCourses(courses)
    /\ remaining' = Len(courses)
    /\ attempt' = 1
    /\ i' = 1
    /\ pc' = "loop"
    /\ looked' = NoLookups
    /\ cycStart' = Snapshot(courses, Len(courses), Len(notifs))
    /\ issued' = <<>>
    /\ UNCHANGED <<k, courses, outcome>>
    /\ UNCHANGED inputVars
    /\ UNCHANGED <<resolved, lookedCRNs, failedPrev, notifs, inflight>>
    /\ UNCHANGED cancelVars
    /\ UNCHANGED waits
    /\ UNCHANGED legacy

\* Mutant: the skip of found courses is missing.
AlreadyFoundIgnored(c) == FALSE

\* Run: if courses[i].Found { continue }.
AlreadyFound(c) == c.Found

SkipFound ==
    /\ pc = "loop"
    /\ i <= Len(courses)
    /\ AlreadyFound(courses[i])
    /\ i' = i + 1
    /\ UNCHANGED <<pc, k, courses, remaining, attempt, outcome>>
    /\ UNCHANGED inputVars
    /\ UNCHANGED histVars
    /\ UNCHANGED cancelVars
    /\ UNCHANGED waits
    /\ UNCHANGED legacy

\* Run: cfg.checkSectionOpen(courses[i].CRN) is called; the request is in flight.
IssueLookup ==
    /\ pc = "loop"
    /\ i <= Len(courses)
    /\ ~AlreadyFound(courses[i])
    /\ pc' = "lookup"
    /\ lookedCRNs' = lookedCRNs \cup {courses[i].CRN}
    /\ issued' = Append(issued, i)
    /\ inflight' = inflight \cup {i}
    /\ UNCHANGED <<k, courses, remaining, attempt, i, outcome>>
    /\ UNCHANGED inputVars
    /\ UNCHANGED <<resolved, looked, failedPrev, cycStart, notifs>>
    /\ UNCHANGED cancelVars
    /\ UNCHANGED waits
    /\ UNCHANGED legacy

\* Run: checkSectionOpen returned an error; r, nextI, nextPc and out are
\* remaining, i, the position of Run and its result afterwards.
LookupFailed(r, nextI, nextPc, out) ==
    /\ pc = "lookup"
    /\ \E resp \in Answers(courses[i].CRN) : checkSectionOpen(courses[i].CRN, resp).err
    /\ looked' = [looked EXCEPT ![i] = "error"]
    /\ inflight' = inflight \ {i}
    /\ remaining' = r
    /\ i' = nextI
    /\ pc' = nextPc
    /\ outcome' = out
    /\ UNCHANGED <<k, courses, attempt>>
    /\ UNCHANGED inputVars
    /\ UNCHANGED <<resolved, lookedCRNs, failedPrev, cycStart, notifs, issued>>
    /\ UNCHANGED cancelVars
    /\ UNCHANGED waits
    /\ UNCHANGED legacy

\* Mutant: a failed lookup ends the sweep (break instead of continue).
LookupErrorBreaks == LookupFailed(remaining, Len(courses) + 1, "loop", outcome)

\* Mutant: a failed lookup is counted as a course found.
LookupErrorCounted == LookupFailed(remaining - 1, i + 1, "loop", outcome)

\* Mutant: a failed lookup is fatal, as in the single-CRN program.
LookupErrorFatal == LookupFailed(remaining, i, "done", "errLookup")

\* Run: err != nil: "Error checking", continue (the delay is skipped).
LookupError == LookupFailed(remaining, i + 1, "loop", outcome)

\* Run: the lookup succeeded and open is false: nothing but the delay.
LookupClosed ==
    /\ pc = "lookup"
    /\ \E resp \in Answers(courses[i].CRN) :
         LET r == checkSectionOpen(courses[i].CRN, resp) IN ~r.err /\ ~r.open
    /\ looked' = [looked EXCEPT ![i] = "closed"]
    /\ inflight' = inflight \ {i}
    /\ pc' = "delay"
    /\ UNCHANGED <<k, courses, remaining, attempt, i, outcome>>
    /\ UNCHANGED inputVars
    /\ UNCHANGED <<resolved, lookedCRNs, failedPrev, cycStart, notifs, issued>>
    /\ UNCHANGED cancelVars
    /\ UNCHANGED waits
    /\ UNCHANGED legacy

\* Run: what is printed after the sendEmail call, whose result is discarded.
ReportAfterSend(err) == "Notification sent"

\* Run: the sendEmail call of the open branch: its destination, subject and
\* the name and CRN its body is formatted from; err is whether sendEmail
\* returned an error, via the function the call goes to, report what Run
\* prints about it.
Notification(to, c, idx, err) ==
    [to |-> to, subject |-> "VT Course Section Open!", name |-> c.Name, crn |-> c.CRN,
     idx |-> idx, via |-> SentVia(emailSender), err |-> err, report |-> ReportAfterSend(err)]

\* Mutant: remaining is not decremented.
DecrementForgotten(r) == r

\* Run: remaining--.
Decrement(r) == r - 1

\* Run: the open branch: courses[i].Found = true; remaining--; sendEmail if
\* cfg.Email != "". sendEmail fails or not, as the mail service decides;
\* foundAfterFailedSend is the Found flag the course is left with when it fails.
SeatOpen(foundAfterFailedSend) ==
    /\ pc = "lookup"
    /\ \E resp \in Answers(courses[i].CRN) :
         LET r == checkSectionOpen(courses[i].CRN, resp) IN ~r.err /\ r.open
    /\ remaining' = Decrement(remaining)
    /\ \E err \in BOOLEAN :
         IF cfg.email # <<>>
         THEN /\ notifs' = Append(notifs, Notification(cfg.email, courses[i], i, err))
              /\ courses' = [courses EXCEPT
                                ![i].Found = IF err THEN foundAfterFailedSend ELSE TRUE]
         ELSE /\ notifs' = notifs
              /\ courses' = [courses EXCEPT ![i].Found = TRUE]
    /\ looked' = [looked EXCEPT ![i] = "open"]
    /\ inflight' = inflight \ {i}
    /\ pc' = "delay"
    /\ UNCHANGED <<k, attempt, i, outcome>>
    /\ UNCHANGED inputVars
    /\ UNCHANGED <<resolved, lookedCRNs, failedPrev, cycStart, issued>>
    /\ UNCHANGED cancelVars
    /\ UNCHANGED waits
    /\ UNCHANGED legacy

\* Mutant: a failed send rolls the status back, to send again in a later cycle.
LookupOpenRollsBack == SeatOpen(FALSE)

\* Run: open: the result of sendEmail is discarded, the course stays Found.
LookupOpen == SeatOpen(TRUE)

\* Run: time.Sleep(500 * time.Millisecond), then the next course.
Delay ==
    /\ pc = "delay"
    /\ i' = i + 1
    /\ pc' = "loop"
    /\ issued' = Append(issued, 0)
    /\ UNCHANGED <<k, courses, remaining, attempt, outcome>>
    /\ UNCHANGED inputVars
    /\ UNCHANGED <<resolved, lookedCRNs, looked, failedPrev, cycStart, notifs, inflight>>
    /\ UNCHANGED cancelVars
    /\ UNCHANGED waits
    /\ UNCHANGED legacy

\* Mutant: the termination test is off by one.
NoneRemainingOffByOne(r) == r <= 1

\* Run: remaining == 0.
NoneRemaining(r) == r = 0

\* Run: if remaining == 0 { return nil }.
ReturnAllFound ==
    /\ pc = "loop"
    /\ i > Len(courses)
    /\ NoneRemaining(remaining)
    /\ pc' = "done"
    /\ outcome' = "nil"
    /\ UNCHANGED <<k, courses, remaining, attempt, i>>
    /\ UNCHANGED inputVars
    /\ UNCHANGED histVars
    /\ UNCHANGED cancelVars
    /\ UNCHANGED waits
    /\ UNCHANGED legacy

\* The lookups that failed in the current cycle.
FailedThisCycle == {j \in DOMAIN looked : looked[j] = "error"}

\* Mutant: the wait grows with the failures of the cycle.
IntervalBackingOff(c, failures) == c.checkInterval * (1 + failures)

\* Run: interval := time.Duration(cfg.CheckInterval) * time.Second, in seconds;
\* nothing of Run changes it afterwards.
Interval(c, failures) == c.checkInterval

\* Run: remaining != 0: waitUntil := time.Now().Add(interval), and the
\* spinner loop runs until then.
EnterWait ==
    /\ pc = "loop"
    /\ i > Len(courses)
    /\ ~NoneRemaining(remaining)
    /\ pc' = "wait"
    /\ waits' = Append(waits, Interval(cfg, Cardinality(FailedThisCycle)))
    /\ UNCHANGED <<k, courses, remaining, attempt, i, outcome>>
    /\ UNCHANGED inputVars
    /\ UNCHANGED histVars
    /\ UNCHANGED cancelVars
    /\ UNCHANGED legacy

\* Run: the wait is over: attempt++ and the next sweep begins over cs.
BeginAttempt(cs) ==
    /\ pc = "wait"
    /\ attempt < MaxAttempts
    /\ attempt' = attempt + 1
    /\ i' = 1
    /\ pc' = "loop"
    /\ courses' = cs
    /\ failedPrev' = {j \in Indices : looked[j] = "error"}
    /\ looked' = NoLookups
    /\ cycStart' = Snapshot(cs, remaining, Len(notifs))
    /\ issued' = <<>>
    /\ UNCHANGED <<k, remaining, outcome>>
    /\ UNCHANGED inputVars
    /\ UNCHANGED <<resolved, lookedCRNs, notifs, inflight>>
    /\ UNCHANGED cancelVars
    /\ UNCHANGED waits
    /\ UNCHANGED legacy

\* Mutant: the statuses are initialised anew for every attempt.
NextAttemptResets == BeginAttempt([j \in Indices |-> [courses[j] EXCEPT !.Found = FALSE]])

\* Run: the outer for loop: attempt++, courses as they are.
NextAttempt == BeginAttempt(courses)

\* A caller asks Run to cancel while it polls. RunOptions carries no
\* cancellation input and Run checks for none at a cycle boundary or in the
\* wait, so nothing of Run reads the request.
Cancel ==
    /\ pc \in {"loop", "lookup", "delay", "wait"}
    /\ ~cancelRequested
    /\ cancelRequested' = TRUE
    /\ pendingAtCancel' = Pending
    /\ UNCHANGED <<pc, k, courses, remaining, attempt, i, outcome>>
    /\ UNCHANGED inputVars
    /\ UNCHANGED histVars
    /\ UNCHANGED waits
    /\ UNCHANGED legacy

Next ==
    \/ LoadConfig
    \/ ResolveSkip
    \/ ResolveAppend
    \/ ReturnNoValid
    \/ StartPolling
    \/ SkipFound
    \/ IssueLookup
    \/ LookupError
    \/ LookupClosed
    \/ LookupOpen
    \/ Delay
    \/ ReturnAllFound
    \/ EnterWait
    \/ NextAttempt

Spec == Init /\ [][Next]_vars

\* Run together with an environment that may ask for cancellation.
NextOrCancel ==
    \/ Next
    \/ Cancel

CancelSpec == Init /\ [][NextOrCancel]_vars

\* The timetable server, between two cycles of Run: from the next cycle on
\* every section asked for is listed as open, and every request is answered.
Settle ==
    /\ pc = "wait"
    /\ attempt < MaxAttempts
    /\ upstream = "any"
    /\ upstream' = "open"
    /\ UNCHANGED <<pc, cfgFile, cfg, emailSender, call, k, courses, remaining, attempt, i, outcome>>
    /\ UNCHANGED histVars
    /\ UNCHANGED cancelVars
    /\ UNCHANGED waits
    /\ UNCHANGED legacy

\* Run with a server that may settle, every lookup returning and the loop of
\* Run being scheduled again and again.
NextOrSettle ==
    \/ Next
    \/ Settle

LiveSpec == Init /\ [][NextOrSettle]_vars /\ WF_vars(Next)

\* The timetable server, while Run polls: it accepts requests and never
\* answers them again.
GoSilent ==
    /\ pc \in {"loop", "lookup", "delay", "wait"}
    /\ upstream = "any"
    /\ upstream' = "silent"
    /\ UNCHANGED <<pc, cfgFile, cfg, emailSender, call, k, courses, remaining, attempt, i, outcome>>
    /\ UNCHANGED histVars
    /\ UNCHANGED cancelVars
    /\ UNCHANGED waits
    /\ UNCHANGED legacy

\* Run with a server that may fall silent.
NextOrSilent ==
    \/ Next
    \/ GoSilent

SilentSpec == Init /\ [][NextOrSilent]_vars

\* Run as any caller may call it, a test with a sender of its own included.
AnyCaller ==
    (\E sender \in EmailSenders : RunCalled(sender)) /\ call = NoCall /\ legacy = NotRun

CallerSpec == AnyCaller /\ [][Next]_vars

\* Run on a file that may set the check interval.
IntervalGiven ==
    RunCalledWith(FilesGiving({5}, {}, {}, {}), "nil") /\ call = NoCall /\ legacy = NotRun

IntervalSpec == IntervalGiven /\ [][Next]_vars

\* The functions of the program called on their own, as the tests call them.
runVars == <<pc, cfgFile, cfg, k, courses, remaining, attempt, i, outcome, upstream,
             emailSender>>

\* The calls to examine: checkSectionOpen(crn) against an answer of the
\* server, and loadConfig(path) on a file.
Calls ==
    {[fn |-> "checkSectionOpen", arg |-> [crn |-> c, resp |-> r], done |-> FALSE,
      sent |-> <<>>, ret |-> <<>>] : c \in CRNValues, r \in ListedResponses}
    \cup {[fn |-> "loadConfig", arg |-> f, done |-> FALSE, sent |-> <<>>, ret |-> <<>>] :
            f \in AnyConfigFiles}

FunctionCalled ==
    /\ RunCalled("nil")
    /\ cfgFile.kind = "missing"
    /\ call \in Calls
    /\ legacy = NotRun

\* Config.checkSectionOpen(crn): the payload posted and (open, err).
CallCheckSectionOpen ==
    /\ call.fn = "checkSectionOpen"
    /\ ~call.done
    /\ call' = [call EXCEPT !.done = TRUE,
                            !.sent = buildPayload(cfg, call.arg.crn, TRUE),
                            !.ret = checkSectionOpen(call.arg.crn, call.arg.resp)]
    /\ UNCHANGED runVars
    /\ UNCHANGED histVars
    /\ UNCHANGED cancelVars
    /\ UNCHANGED waits
    /\ UNCHANGED legacy

\* loadConfig(path): (Config, error).
CallLoadConfig ==
    /\ call.fn = "loadConfig"
    /\ ~call.done
    /\ call' = [call EXCEPT !.done = TRUE, !.ret = loadConfig(call.arg)]
    /\ UNCHANGED runVars
    /\ UNCHANGED histVars
    /\ UNCHANGED cancelVars
    /\ UNCHANGED waits
    /\ UNCHANGED legacy

PureNext ==
    \/ CallCheckSectionOpen
    \/ CallLoadConfig

PureSpec == FunctionCalled /\ [][PureNext]_vars

\* The single-CRN program of src/main.go, run for a CRN given by -crn.
LegacyStarted ==
    /\ RunCalled("nil")
    /\ cfgFile.kind = "missing"
    /\ call = NoCall
    /\ \E c \in CRNValues :
         legacy = [pc |-> "check", crn |-> c, found |-> FALSE, attempt |-> 1,
                   resp |-> <<>>, posts |-> 0, exit |-> "none"]

LegacyFrame ==
    /\ UNCHANGED runVars
    /\ UNCHANGED histVars
    /\ UNCHANGED cancelVars
    /\ UNCHANGED <<call, waits>>

\* main: for !found { ... http.PostForm(URL, payload) is called.
LegacyPost ==
    /\ legacy.pc = "check"
    /\ ~legacy.found
    /\ legacy' = [legacy EXCEPT !.pc = "posted", !.posts = @ + 1]
    /\ LegacyFrame

\* main: resp, err := http.PostForm(URL, payload) returns.
LegacyReceive ==
    /\ legacy.pc = "posted"
    /\ \E r \in Responses : legacy' = [legacy EXCEPT !.pc = "received", !.resp = r]
    /\ LegacyFrame

\* main: err != nil, resp.StatusCode != 200, or goquery fails on the body.
LegacyLookupErr(r) == r.net = "fail" \/ r.status # 200 \/ r.net = "badbody"

\* main: the lookup failed; nextPc and exit are where main is afterwards and
\* the status the process has exited with.
LegacyLookupFailed(nextPc, exit) ==
    /\ legacy.pc = "received"
    /\ LegacyLookupErr(legacy.resp)
    /\ legacy' = [legacy EXCEPT !.pc = nextPc, !.exit = exit]
    /\ LegacyFrame

\* Mutant: a failed lookup is logged and tried again on the next attempt.
LegacyErrorRetried == LegacyLookupFailed("sleep", "none")

\* main: log.Fatal(err) / log.Fatalf("status code error ..."): os.Exit(1).
LegacyFatal == LegacyLookupFailed("exited", "1")

\* main: the table text is searched for the CRN: found = true if it is there.
LegacyAnswer ==
    /\ legacy.pc = "received"
    /\ ~LegacyLookupErr(legacy.resp)
    /\ legacy' = [legacy EXCEPT
                    !.pc = "sleep",
                    !.found = Contains(TableText(legacy.resp.rows), legacy.crn)]
    /\ LegacyFrame

\* main: time.Sleep(refreshSeconds * time.Second); attempt++; the loop test.
LegacySleep ==
    /\ legacy.pc = "sleep"
    /\ legacy.found \/ legacy.attempt < MaxAttempts
    /\ legacy' = [legacy EXCEPT
                    !.attempt = @ + 1,
                    !.pc = IF legacy.found THEN "exited" ELSE "check",
                    !.exit = IF legacy.found THEN "0" ELSE "none"]
    /\ LegacyFrame

LegacyNext ==
    \/ LegacyPost
    \/ LegacyReceive
    \/ LegacyFatal
    \/ LegacyAnswer
    \/ LegacySleep

LegacySpec == LegacyStarted /\ [][LegacyNext]_vars
-----------------------------------------------------------------------------
\* Vocabulary of the properties.
Polling == {"loop", "lookup", "delay", "wait"}
EndOfCycle == pc = "wait" \/ (pc = "loop" /\ i > Len(courses))
NotifsOf(j) == {n \in DOMAIN notifs : notifs[n].idx = j}
PendingAtCycleStart == {j \in DOMAIN cycStart.courses : ~cycStart.courses[j].Found}

\* C1: for every tracked course a notification is attempted at most once, and
\* only in the step in which the course goes from Pending to Found; no later
\* cycle attempts one again.
C1_NotifiedOnceOnTransition ==
    /\ [](\A n \in DOMAIN notifs : notifs[n].idx \in Indices)
    /\ [](\A j \in Indices : Cardinality(NotifsOf(j)) <= 1)
    /\ [][\A j \in Indices :
            Cardinality(NotifsOf(j)') # Cardinality(NotifsOf(j))
            => /\ Cardinality(NotifsOf(j)') = Cardinality(NotifsOf(j)) + 1
               /\ ~courses[j].Found
               /\ courses'[j].Found]_vars

\* A course found and notified in an earlier cycle, after a later cycle ran.
C1_Witness ==
    /\ pc = "wait"
    /\ attempt >= 2
    /\ \E j \in Indices : cycStart.courses[j].Found /\ Cardinality(NotifsOf(j)) = 1

\* C2: the Found flag is monotonic: once true it is never set back to false,
\* whatever a later cycle, lookup failure or wait does.
C2_FoundNeverReset ==
    [][\A j \in Indices : courses[j].Found => courses'[j].Found]_vars

\* A course found in an earlier cycle, in a later cycle with a failed lookup.
C2_Witness ==
    /\ attempt >= 2
    /\ \E j \in Indices : cycStart.courses[j].Found
    /\ \E m \in Indices : looked[m] = "error"

\* C3: in every state of the polling loop, and at the return, remaining is
\* the number of courses whose Found flag is false, between 0 and len(courses).
C3_RemainingCountsPending ==
    (pc \in Polling \/ outcome = "nil")
    => /\ remaining = Cardinality(Pending)
       /\ remaining >= 0
       /\ remaining <= Len(courses)

\* Right after a transition that leaves another course Pending.
C3_Witness ==
    /\ pc = "delay"
    /\ looked[i] = "open"
    /\ remaining = 1
    /\ Len(courses) = 2

\* C4: once polling has started Run returns only nil, only at the end of a
\* cycle after which every course is Found, and at the end of the first such
\* cycle: it never waits or starts a cycle with every course Found.
C4_ReturnsWhenAllFound ==
    /\ outcome = "nil" => (pc = "done" /\ Pending = {} /\ i = Len(courses) + 1)
    /\ (pc = "done" /\ attempt >= 1) => outcome = "nil"
    /\ pc = "wait" => Pending # {}
    /\ (pc \in Polling /\ Pending = {}) => PendingAtCycleStart # {}

\* Run returned nil after a cycle that was not the first.
C4_Witness ==
    /\ outcome = "nil"
    /\ attempt >= 2
    /\ Len(courses) = 2

\* The notifications attempted for course b are exactly one, carrying the
\* configured destination and b's display name and id.
NotifiedOnceNaming(b) ==
    /\ Cardinality(NotifsOf(b)) = 1
    /\ \A n \in NotifsOf(b) :
         /\ notifs[n].to = cfg.email
         /\ notifs[n].name = courses[b].Name
         /\ notifs[n].crn = courses[b].CRN

\* Every course after a that the sweep has passed was looked up in this cycle,
\* unless it was already Found when the cycle began.
LaterCoursesLookedUp(a) ==
    \A j \in Indices :
        (a < j /\ (j < i \/ EndOfCycle))
        => (looked[j] # "none" \/ j \notin PendingAtCycleStart)

\* C5 as stated: when the lookup of a Pending course A fails, A stays Pending
\* and unnotified and the courses after A are still looked up; a later course
\* B reported available in that cycle becomes Found and exactly one
\* notification is attempted, naming B.
C5_AsStated ==
    \A a \in DOMAIN looked :
        looked[a] = "error"
        => /\ ~courses[a].Found
           /\ NotifsOf(a) = {}
           /\ LaterCoursesLookedUp(a)
           /\ \A b \in Indices :
                (a < b /\ looked[b] = "open")
                => (courses[b].Found /\ NotifiedOnceNaming(b))

\* C5, amended: as C5, where the one notification naming B is attempted when a
\* destination (cfg.Email) is configured; with none configured B becomes
\* Found and no notification is attempted.
C5_FailureIsolated ==
    \A a \in DOMAIN looked :
        looked[a] = "error"
        => /\ ~courses[a].Found
           /\ NotifsOf(a) = {}
           /\ LaterCoursesLookedUp(a)
           /\ \A b \in Indices :
                (a < b /\ looked[b] = "open")
                => /\ courses[b].Found
                   /\ IF cfg.email # <<>> THEN NotifiedOnceNaming(b) ELSE notifs = <<>>

\* A's lookup failed, B's reported a seat in the same cycle, a destination is set.
C5_Witness ==
    /\ cfg.email # <<>>
    /\ EndOfCycle
    /\ \E a, b \in Indices : a < b /\ looked[a] = "error" /\ looked[b] = "open"

\* C6: a cycle in which every lookup fails leaves every Found flag and
\* remaining unchanged and attempts no notification.
C6_AllFailedCycleChangesNothing ==
    (/\ EndOfCycle
     /\ \E j \in Indices : looked[j] = "error"
     /\ \A j \in Indices : looked[j] \in {"none", "error"})
    => /\ courses = cycStart.courses
       /\ remaining = cycStart.remaining
       /\ Len(notifs) = cycStart.notifs

\* The end of a cycle in which two lookups were made and both failed.
C6_Witness ==
    /\ EndOfCycle
    /\ Len(courses) = 2
    /\ \A j \in Indices : looked[j] = "error"

\* C7: a lookup failure is no error of the session: Run returns no error once
\* polling has begun; a cycle with failed lookups is followed by the wait and
\* the wait by a new cycle; and in that cycle every course whose lookup had
\* failed is still Pending and is looked up again when its turn comes.
C7_FailedLookupRetried ==
    /\ [](attempt >= 1 => outcome \in {"none", "nil"})
    /\ []((attempt >= 2 /\ pc \in Polling)
          => \A j \in failedPrev :
                /\ j \in PendingAtCycleStart
                /\ (j < i \/ EndOfCycle) => looked[j] # "none")
    /\ [][(pc = "loop" /\ i > Len(courses) /\ \E j \in Indices : looked[j] = "error")
          => pc' = "wait"]_vars
    /\ [][pc = "wait" => (pc' = "loop" /\ i' = 1 /\ attempt' = attempt + 1)]_vars

\* A course whose lookup failed in the previous cycle has been looked up again.
C7_Witness ==
    /\ attempt >= 2
    /\ \E j \in failedPrev : looked[j] # "none"

\* The configured identifiers at the first n positions whose name resolved.
RECURSIVE ResolvedCRNs(_)
ResolvedCRNs(n) ==
    IF n = 0 THEN <<>>
    ELSE IF resolved[n] THEN Append(ResolvedCRNs(n - 1), cfg.crns[n])
    ELSE ResolvedCRNs(n - 1)

TrackedCRNs == {courses[j].CRN : j \in Indices}
NeverResolved == {c \in CRNValues :
                    /\ \E q \in DOMAIN resolved : cfg.crns[q] = c
                    /\ \A q \in DOMAIN resolved : cfg.crns[q] = c => ~resolved[q]}

\* C8: the tracked set is exactly the configured identifiers whose name
\* resolved, in configuration order, each starting Pending; an identifier
\* whose resolution failed is not tracked, never looked up and never
\* notified, and the identifiers after it are still resolved.
C8_TrackedAreTheResolved ==
    /\ Len(resolved) = k - 1
    /\ [j \in Indices |-> courses[j].CRN] = ResolvedCRNs(Len(resolved))
    /\ (pc \notin {"load", "resolve"}) => Len(resolved) = Len(cfg.crns)
    /\ (pc = "resolve" \/ attempt = 1) => \A j \in DOMAIN cycStart.courses : ~cycStart.courses[j].Found
    /\ pc = "resolve" => \A j \in Indices : ~courses[j].Found
    /\ lookedCRNs \subseteq TrackedCRNs
    /\ \A n \in DOMAIN notifs : notifs[n].crn \in TrackedCRNs
    /\ \A c \in NeverResolved :
         /\ c \notin TrackedCRNs
         /\ c \notin lookedCRNs
         /\ \A n \in DOMAIN notifs : notifs[n].crn # c

\* The first identifier failed to resolve, the second resolved and was polled.
C8_Witness ==
    /\ resolved = <<FALSE, TRUE>>
    /\ cfg.crns[1] # cfg.crns[2]
    /\ Len(courses) = 1
    /\ lookedCRNs = {cfg.crns[2]}
    /\ pc = "done"

ConfigUnusable == cfgFile.kind # "ok" \/ Len(cfgFile.crns) = 0
NoneResolved == \A q \in DOMAIN resolved : ~resolved[q]

\* C9: Run returns an error before any availability lookup or notification
\* when the configuration cannot be read or parsed, lists no identifier, or
\* no identifier resolves; it fails at initialization in those cases only,
\* and the polling loop is entered with at least one tracked course.
C9_InitErrorsBeforePolling ==
    /\ (pc # "load" /\ ConfigUnusable) => (pc = "done" /\ outcome = "errLoadConfig")
    /\ outcome = "errLoadConfig" => ConfigUnusable
    /\ (pc \notin {"load", "resolve"} /\ ~ConfigUnusable /\ NoneResolved)
       => (pc = "done" /\ outcome = "errNoValid")
    /\ outcome = "errNoValid"
       => (~ConfigUnusable /\ NoneResolved /\ Len(resolved) = Len(cfgFile.crns))
    /\ outcome \notin {"none", "nil"}
       => (lookedCRNs = {} /\ notifs = <<>> /\ attempt = 0 /\ courses = <<>>)
    /\ (pc \in Polling \/ outcome = "nil")
       => (~ConfigUnusable /\ ~NoneResolved /\ Len(courses) >= 1)

\* Two identifiers were configured and neither resolved.
C9_Witness ==
    /\ outcome = "errNoValid"
    /\ Len(cfgFile.crns) = 2

\* C10: cancellation arriving while Run runs a cycle or waits ends the
\* session with the outcome Cancelled, leaves every still-Pending course
\* Pending and attempts no notification for it.
C10_CancelledLeavesPendingUntouched ==
    cancelRequested
    => /\ \A j \in pendingAtCancel : ~courses[j].Found /\ NotifsOf(j) = {}
       /\ pc = "done" => outcome = "Cancelled"

FailedNotifs == {n \in DOMAIN notifs : notifs[n].err}

\* C11: a failed notification attempt does not undo the transition and is not
\* retried: the course stays Found, remaining stays decremented, the course
\* counts toward termination, and no second notification is attempted for it.
C11_FailedSendKeepsTransition ==
    /\ [](\A n \in FailedNotifs :
            /\ courses[notifs[n].idx].Found
            /\ NotifsOf(notifs[n].idx) = {n}
            /\ (pc \in Polling \/ outcome = "nil") => remaining = Cardinality(Pending)
            /\ (pc = "loop" /\ i > Len(courses) /\ Pending = {}) => NoneRemaining(remaining))
    /\ [][\A n \in FailedNotifs :
            /\ n \in FailedNotifs'
            /\ notifs'[n] = notifs[n]
            /\ courses'[notifs[n].idx].Found]_vars

\* Run returned nil although a notification sent in an earlier cycle had failed.
C11_Witness ==
    /\ outcome = "nil"
    /\ attempt >= 2
    /\ \E n \in FailedNotifs : cycStart.courses[notifs[n].idx].Found

\* C12: a failed notification attempt is reported: what the cycle reports for
\* a course whose notification failed is a notification failure, different
\* from what it reports when the notification was delivered.
C12_FailedSendReported ==
    \A n \in FailedNotifs :
        /\ notifs[n].report # "Notification sent"
        /\ \A m \in DOMAIN notifs : ~notifs[m].err => notifs[m].report # notifs[n].report

OpenedThisCycle == {j \in DOMAIN looked : looked[j] = "open"}

\* What C13 says of the cycles in which a course is reported not available,
\* and of status and remaining in the cycle in which it is reported available.
ClosedChangesNothingOpenLatches ==
    /\ \A j \in DOMAIN looked :
         /\ looked[j] = "closed" => (~courses[j].Found /\ NotifsOf(j) = {})
         /\ looked[j] # "open" => courses[j].Found = cycStart.courses[j].Found
         /\ looked[j] = "open" => (j \in PendingAtCycleStart /\ courses[j].Found)
    /\ cycStart.remaining - remaining = Cardinality(OpenedThisCycle)

\* C13 as stated: a course reported not available in cycles 1..N-1 and
\* available in cycle N is left unchanged, with remaining, and unnotified by
\* cycles 1..N-1; cycle N makes it Found, decrements remaining by exactly 1
\* and attempts exactly one notification, in cycle N.
C13_AsStated ==
    /\ ClosedChangesNothingOpenLatches
    /\ \A j \in OpenedThisCycle :
         NotifiedOnceNaming(j) /\ \A n \in NotifsOf(j) : n > cycStart.notifs
    /\ Len(notifs) - cycStart.notifs = Cardinality(OpenedThisCycle)

\* C13, amended: as C13, where cycle N attempts exactly one notification when
\* a destination (cfg.Email) is configured and none when no destination is
\* configured.
C13_OneTransitionOnNthCycle ==
    /\ ClosedChangesNothingOpenLatches
    /\ \A j \in OpenedThisCycle :
         IF cfg.email # <<>>
         THEN NotifiedOnceNaming(j) /\ \A n \in NotifsOf(j) : n > cycStart.notifs
         ELSE NotifsOf(j) = {}
    /\ Len(notifs) - cycStart.notifs
         = IF cfg.email # <<>> THEN Cardinality(OpenedThisCycle) ELSE 0

\* N = 2: a course looked up without failure in cycle 1 and still Pending is
\* reported available in cycle 2, with a destination configured.
C13_Witness ==
    /\ attempt = 2
    /\ cfg.email # <<>>
    /\ \E j \in OpenedThisCycle : j \notin failedPrev

\* C14: with every lookup returning and the loop scheduled, once the lookups
\* of every course always report a seat, every tracked course becomes Found
\* and Run returns nil, whatever failures and closed answers came before.
C14_SettledOpenTerminates ==
    (upstream = "open") ~> (outcome = "nil" /\ Indices # {} /\ Pending = {})

\* Run returned after the server settled, a lookup having failed in the cycle
\* before the last.
C14_Witness ==
    /\ upstream = "open"
    /\ outcome = "nil"
    /\ failedPrev # {}

\* C15: a lookup honors a timeout: whenever a lookup is in flight it can
\* return, with a result or, the server never answering, with a failure, so
\* that Run goes on to the next course and the next cycle.
C15_LookupCanReturn ==
    pc = "lookup" => ENABLED (LookupError \/ LookupClosed \/ LookupOpen)

\* C16: when the caller supplies a sender as RunOptions.EmailSender and a
\* destination is configured, every course that became Found has exactly one
\* Send call on the supplied sender, with the destination and the course's
\* name and CRN, and no notification goes any other way.
C16_SentThroughSuppliedSender ==
    (emailSender = "supplied" /\ cfg.email # <<>>)
    => /\ \A j \in Indices :
            courses[j].Found
            => /\ NotifiedOnceNaming(j)
               /\ \A n \in NotifsOf(j) : notifs[n].via = "EmailSender.Send"
       /\ \A n \in DOMAIN notifs : notifs[n].via = "EmailSender.Send"

\* The section crn is listed in a results table: a row has it as its CRN cell.
Listed(crn, rows) ==
    \E r \in DOMAIN rows : TrimSpace(NthChildText(rows[r], 1)) = crn

\* C17: checkSectionOpen(crn) posts an open-only query for crn; on a
\* successful response it returns true exactly when the requested section is
\* listed in the results table, false when the table is empty or lists only
\* other sections; when the request fails or the status is not 200 it
\* returns an error, with false.
C17_OpenExactlyWhenListed ==
    (call.fn = "checkSectionOpen" /\ call.done)
    => LET crn == call.arg.crn
           resp == call.arg.resp
       IN  /\ call.sent.crn = <<crn>>
           /\ call.sent.open_only = <<"on">>
           /\ (resp.net = "fail" \/ resp.status # 200)
              => (call.ret.err /\ ~call.ret.open)
           /\ (resp.net = "ok" /\ resp.status = 200)
              => (~call.ret.err /\ (call.ret.open <=> Listed(crn, resp.rows)))

\* C18: for every file that lists at least one CRN loadConfig returns the
\* values the file gives, and the defaults 30, "0", "202601" and
\* DefaultTimetableURL for exactly the fields that are absent, zero or empty;
\* a value that is given is never overwritten.
C18_DefaultsOnlyForAbsent ==
    (call.fn = "loadConfig" /\ call.done /\ call.arg.kind = "ok" /\ Len(call.arg.crns) >= 1)
    => LET file == call.arg
           c == call.ret
       IN  /\ c.err = "nil"
           /\ c.crns = file.crns
           /\ c.email = file.email
           /\ c.checkInterval = (IF file.checkInterval = 0 THEN 30 ELSE file.checkInterval)
           /\ c.campus = (IF file.campus = "" THEN "0" ELSE file.campus)
           /\ c.term = (IF file.term = "" THEN "202601" ELSE file.term)
           /\ c.baseUrl = (IF file.baseUrl = "" THEN "DefaultTimetableURL" ELSE file.baseUrl)

\* A file that gives the interval, leaves out the campus and gives a term and
\* a URL other than the defaults has been loaded.
C18_Witness ==
    /\ call.fn = "loadConfig"
    /\ call.done
    /\ call.arg.kind = "ok"
    /\ Len(call.arg.crns) >= 1
    /\ call.arg.checkInterval = 5
    /\ call.arg.campus = ""
    /\ call.arg.term = "202609"
    /\ call.arg.baseUrl = "http://localhost"
    /\ call.ret.campus = "0"

IsLookup(e) == e # 0

\* The lookups of the current cycle, in the order they were issued.
LookupsIssued == SelectSeq(issued, IsLookup)

\* C19: within a cycle the lookups are issued one at a time, in the order of
\* the courses, once for each course that is Pending when its turn comes and
\* never for a course already Found; no two lookups are in flight together.
C19_SequentialInOrderOncePerPending ==
    /\ \A a, b \in DOMAIN LookupsIssued : a < b => LookupsIssued[a] < LookupsIssued[b]
    /\ \A a \in DOMAIN LookupsIssued : LookupsIssued[a] \in PendingAtCycleStart
    /\ pc \in Polling
       => \A j \in PendingAtCycleStart :
            (j < i \/ (j = i /\ pc \in {"lookup", "delay"}))
            <=> (\E a \in DOMAIN LookupsIssued : LookupsIssued[a] = j)
    /\ Cardinality(inflight) <= 1
    /\ inflight = (IF pc = "lookup" THEN {i} ELSE {})

\* A later cycle is over: a course found before it was passed over, the other
\* was looked up.
C19_Witness ==
    /\ attempt >= 2
    /\ pc = "wait"
    /\ \E j \in Indices : cycStart.courses[j].Found
    /\ LookupsIssued # <<>>

\* C20: between any two successive lookups of a cycle the delay is applied,
\* whatever the first of the two returned: no lookup is issued right after
\* another without a sleep between them.
C20_DelayBetweenLookups ==
    \A a \in DOMAIN issued :
        (a < Len(issued) /\ IsLookup(issued[a])) => ~IsLookup(issued[a + 1])

\* The interval of the configuration file, in seconds: 30 unless it gives one.
ConfiguredInterval == IF cfgFile.checkInterval = 0 THEN 30 ELSE cfgFile.checkInterval

\* C21: after every cycle that leaves a course Pending Run waits the
\* configured interval before the next cycle starts; no lookup is issued
\* during the wait, and every wait has the same length, whatever lookups
\* failed before it.
C21_ConstantWaitBetweenCycles ==
    /\ [](\A w \in DOMAIN waits : waits[w] = ConfiguredInterval)
    /\ [](pc \in Polling => Len(waits) = (IF pc = "wait" THEN attempt ELSE attempt - 1))
    /\ [](pc = "wait" => (inflight = {} /\ Pending # {}))
    /\ [][pc = "wait" => (lookedCRNs' = lookedCRNs /\ inflight' = {}
                          /\ (issued' = issued \/ (attempt' = attempt + 1 /\ issued' = <<>>)))]_vars
    /\ [][(attempt >= 1 /\ attempt' # attempt) => pc = "wait"]_vars

\* Two waits were taken with an interval given by the file, lookups having
\* failed in the cycle before the second.
C21_Witness ==
    /\ pc = "wait"
    /\ Len(waits) = 2
    /\ cfgFile.checkInterval = 5
    /\ FailedThisCycle # {}

\* The tracker state: the Found flags, remaining and the notifications attempted.
Tracker == <<[j \in Indices |-> courses[j].Found], remaining, notifs>>

\* C22: the delay between two lookups and the wait between two cycles leave
\* the Found flag of every course, remaining and the notifications attempted
\* unchanged; once polling has begun they change only in the step that
\* handles a lookup reporting a seat.
C22_SuspensionsLeaveTrackerAlone ==
    /\ [][(pc \in {"delay", "wait"}) => (Tracker' = Tracker)]_vars
    /\ [][(pc \in Polling /\ Tracker' # Tracker)
          => (pc = "lookup" /\ looked[i] = "none" /\ looked'[i] = "open")]_vars

\* In a later cycle, after the wait and a delay, a course found earlier is
\* still Found.
C22_Witness ==
    /\ attempt >= 2
    /\ pc = "loop"
    /\ issued # <<>>
    /\ issued[Len(issued)] = 0
    /\ \E j \in Indices : cycStart.courses[j].Found /\ courses[j].Found

\* C23: whatever the configured list, one that names a CRN twice included, no
\* two tracked courses have the same CRN, and at most one notification is
\* attempted for a CRN.
C23_TrackedCRNsUnique ==
    /\ \A a, b \in Indices : a # b => courses[a].CRN # courses[b].CRN
    /\ \A c \in CRNValues : Cardinality({n \in DOMAIN notifs : notifs[n].crn = c}) <= 1

\* C24: when Run returns nil, the notifications attempted are as many as the
\* tracked courses, one for each course, the last one found included, if a
\* destination is configured, and none if no destination is configured; in
\* both cases every course is Found.
C24_AttemptsAtReturn ==
    outcome = "nil"
    => /\ Indices # {}
       /\ \A j \in Indices : courses[j].Found
       /\ Len(notifs) = (IF cfg.email # <<>> THEN Len(courses) ELSE 0)
       /\ \A j \in Indices :
            Cardinality(NotifsOf(j)) = (IF cfg.email # <<>> THEN 1 ELSE 0)

\* Run returned with two courses and a destination, the last course having
\* been found in a later cycle than the first.
C24_Witness ==
    /\ outcome = "nil"
    /\ cfg.email # <<>>
    /\ Len(courses) = 2
    /\ attempt >= 2
    /\ \E j \in Indices : cycStart.courses[j].Found
    /\ \E j \in Indices : ~cycStart.courses[j].Found

\* C25: in the single-CRN loop of src/main.go a failed lookup is fatal: a
\* transport error, a non-200 status or an unparseable body on any attempt
\* ends the run at that attempt, with no further lookup and no retry.
C25_LegacyFailureIsFatal ==
    /\ [][(legacy.pc = "received"
           /\ (legacy.resp.net # "ok" \/ legacy.resp.status # 200))
          => /\ legacy'.pc = "exited"
             /\ legacy'.exit = "1"
             /\ legacy'.attempt = legacy.attempt
             /\ legacy'.posts = legacy.posts]_vars
    /\ [][legacy.pc = "exited" => (legacy' = legacy)]_vars
    /\ [](legacy.exit = "1" => (~legacy.found /\ legacy.posts = legacy.attempt))

\* The run has ended on the failure of its second lookup, a 500 answer.
C25_Witness ==
    /\ legacy.pc = "exited"
    /\ legacy.exit = "1"
    /\ legacy.attempt = 2
    /\ legacy.resp.status = 500
====
